---- MODULE Spec2Model ----
(***************************************************************************)
(* A model of the per-call voice session of Cult-Voice (the WebSocket      *)
(* handler of src/unnamed/part_000, the revision with the complete         *)
(* greeting + STT + AI-reply pipeline), of its process-wide greeting       *)
(* cache, of the bounded conversation memory (push) and of the paced       *)
(* playback loop (sendPcmStream).                                          *)
(*                                                                         *)
(* Node runs every callback to completion, so one action is the code that  *)
(* runs between two awaits.  External calls (ffmpeg, Whisper, the chat     *)
(* model, ElevenLabs) complete at an arbitrary later moment with any of    *)
(* their outcomes.  Timers carry the milliseconds they still have to run;  *)
(* time does not advance past a timer that is due.                         *)
(***************************************************************************)
EXTENDS Integers, Sequences, FiniteSets, TLC

\* ------------------------------------------------------------ constants
SILENCE_MS  == 800
GUARD_MS    == 400
CHUNK_BYTES == 320
DELAY_MS    == 20
HISTORY_MAX == 20

\* ------------------------------------------------------------ bounds
MaxFrames == 3
MaxStarts == 1

\* ------------------------------------------------------------ values
Min(a, b) == IF a < b THEN a ELSE b
Max(a, b) == IF a > b THEN a ELSE b

\* Texts.  A text is a record; EmptyText is the JavaScript "".
EmptyText     == [kind |-> "empty", n |-> 0]
BlankText     == [kind |-> "blank", n |-> 0]
GREETING_TEXT == [kind |-> "greeting", n |-> 0]
UserSpeech(c) == [kind |-> "speech", n |-> c]
AnswerText(c) == [kind |-> "answer", n |-> c]
Null          == [kind |-> "null", n |-> 0]

\* (x || "").trim(): a missing or whitespace-only text becomes "".
TrimOrEmpty(t) == IF t = Null \/ t = BlankText THEN EmptyText ELSE t

\* A Buffer is a view [off, off+len) of the bytes of the audio named id.
NoBuffer == [id |-> Null, off |-> 0, len |-> 0]
Buffer(text, n) == [id |-> text, off |-> 0, len |-> n]

\* Buffer.subarray(start, end): both ends are clamped to the buffer.
Subarray(buf, start, end) ==
  LET s == Min(Max(start, 0), buf.len)
      e == Min(Max(end, 0), buf.len)
  IN  [id |-> buf.id, off |-> buf.off + s, len |-> Max(e - s, 0)]

\* The lengths of the audio mp3ToPcm8kS16le returns: a full frame and a short one.
PcmLens == {CHUNK_BYTES + 1}

\* The bytes a buffer views, each named by the audio it belongs to and its position.
Bytes(buf) == [k \in 1..buf.len |-> <<buf.id, buf.off + k - 1>>]

\* chunk.toString("base64"), a text that stands for the chunk's bytes, and the
\* decoding the peer applies to it.
Base64(chunk) == [base64 |-> chunk]
FromBase64(payload) == payload.base64

\* A variant of push that evicts with pop() instead of shift().
pushPop(h, role, content) ==
  LET a == Append(h, [role |-> role, content |-> content])
  IN  IF Len(a) > HISTORY_MAX THEN SubSeq(a, 1, HISTORY_MAX) ELSE a

\* The system instruction of getAIReply (lines 129-137).
system == [kind |-> "system"]

\* No request to the chat model is in flight.
NoRequest == <<>>

\* The messages getAIReply sends to the chat model: the system instruction, the
\* history it is given, then the caller text as a user message (lines 142-146).
messages(h, userText) ==
  <<[role |-> "system", content |-> system]>> \o h
    \o <<[role |-> "user", content |-> userText]>>

\* history.push({role, content}); while (history.length > 20) history.shift()
RECURSIVE ShiftWhileOver(_)
ShiftWhileOver(h) == IF Len(h) > HISTORY_MAX THEN ShiftWhileOver(Tail(h)) ELSE h

push(h, role, content) == ShiftWhileOver(Append(h, [role |-> role, content |-> content]))

\* ------------------------------------------------------------ state
VARIABLES
  wsOpen,            \* the socket is OPEN (ws.close() not yet called, peer has not closed)
  inboundChunks,     \* frames received and not yet handed to a cycle (frame numbers)
  silenceTimer,      \* the handle held by the variable silenceTimer (0: null)
  silencePending,    \* the silence timeouts still scheduled: [id, rem]
  isSpeaking,
  inFlight,
  history,
  cycles,            \* the running invocations of the silence callback, by timer
  starts,            \* the running invocations of the start branch, by number
  guards,            \* the scheduled guard timeouts: [kind, n, rem, why]
  cachedGreetingPcm, \* process-wide: NoBuffer is null
  warm0,             \* the startup warmupGreeting: its position
  outbound,          \* the media frames handed to ws.send on an open socket
  nFrames,           \* inbound frames received so far
  nStarts,           \* start events received so far
  consumed,          \* the frames handed to a cycle so far
  sinceFrame,        \* ms since the last inbound frame, saturating at SILENCE_MS
  turns,             \* every turn pushed so far, in order
  run                \* sendPcmStream or push exercised on its own: arguments and position

vars == <<wsOpen, inboundChunks, silenceTimer, silencePending, isSpeaking, inFlight,
          history, cycles, starts, guards, cachedGreetingPcm, warm0, outbound,
          nFrames, nStarts, consumed, sinceFrame, turns, run>>

\* The conversation memory and the record of what was pushed to it.
memory == <<history, turns>>

NoRun == [pc |-> "none", pcmBuf |-> NoBuffer, chunkBytes |-> 0, i |-> 0, base |-> 0]

Cycle(pc, raw, buf, i, rem) ==
  [pc |-> pc, raw |-> raw, buf |-> buf, i |-> i, rem |-> rem, req |-> NoRequest]

Start(pc, buf, i, rem) == [pc |-> pc, buf |-> buf, i |-> i, rem |-> rem]

Without(f, k) == [x \in DOMAIN f \ {k} |-> f[x]]

Init ==
  /\ wsOpen = TRUE
  /\ inboundChunks = <<>>
  /\ silenceTimer = 0
  /\ silencePending = {}
  /\ isSpeaking = FALSE
  /\ inFlight = FALSE
  /\ history = <<>>
  /\ cycles = <<>>
  /\ starts = <<>>
  /\ guards = {}
  /\ cachedGreetingPcm = NoBuffer
  /\ warm0 = "timer"
  /\ outbound = <<>>
  /\ nFrames = 0
  /\ nStarts = 0
  /\ consumed = {}
  /\ sinceFrame = SILENCE_MS
  /\ turns = <<>>
  /\ run = NoRun

\* ------------------------------------------------------------ helpers
\* A variant of push that appends nothing.
recordNothing(role, content) == UNCHANGED memory

\* push(role, content) on the session's history.
recordTurn(role, content) ==
  /\ history' = push(history, role, content)
  /\ turns' = Append(turns, [role |-> role, content |-> content])

\* A variant of ws.send that delivers whatever the state of the socket.
SendOutcomesAnyState == {"sent"}

\* What ws.send does with a frame: delivered on an open socket; on a socket that is
\* no longer open the ws library either drops the frame or throws, by its version.
SendOutcomes == IF wsOpen THEN {"sent"} ELSE {"dropped", "throws"}

\* JSON.stringify({event: "media", media: {payload: chunk.toString("base64")}})
MediaMessage(chunk) == [event |-> "media", payload |-> Base64(chunk)]

\* sendPcmStream's loop: its condition, the chunk it sends, its increment.
StreamMore(pcmBuf, i) == i < pcmBuf.len

\* A variant of the chunk that takes subarray's second argument for a length.
StreamChunkByLength(pcmBuf, i, chunkBytes) == Subarray(pcmBuf, i, chunkBytes)

StreamChunk(pcmBuf, i, chunkBytes) == Subarray(pcmBuf, i, i + chunkBytes)
StreamNext(i, chunkBytes) == i + chunkBytes

Sent(by, n, chunk) == [by |-> by, n |-> n, msg |-> MediaMessage(chunk)]

\* A variant of clearTimeout that cancels nothing.
ClearNothing(pending, handle) == pending

\* clearTimeout(silenceTimer)
ClearSilence(pending, handle) == {t \in pending : t.id # handle}

\* clearTimeout(silenceTimer); silenceTimer = setTimeout(..., 800)
resetSilenceTimer(id) ==
  /\ silencePending' = ClearSilence(silencePending, silenceTimer)
                         \cup {[id |-> id, rem |-> SILENCE_MS]}
  /\ silenceTimer' = id

\* The remaining times of everything scheduled with setTimeout.
AllRems ==
  {t.rem : t \in silencePending} \cup {g.rem : g \in guards}
    \cup {cycles[c].rem : c \in {x \in DOMAIN cycles : cycles[x].pc = "delay"}}
    \cup {starts[s].rem : s \in {x \in DOMAIN starts : starts[x].pc = "delay"}}
    \cup (IF warm0 = "timer" THEN {0} ELSE {})

Elapse(set, d) == {[t EXCEPT !.rem = t.rem - d] : t \in set}

\* ------------------------------------------------------------ time
\* Time advances to the next expiry, or by the guard interval if nothing is due sooner.
Tick ==
  \E d \in {GUARD_MS} \cup AllRems :
    /\ d > 0
    /\ \A r \in AllRems : d <= r
    /\ silencePending' = Elapse(silencePending, d)
    /\ guards' = Elapse(guards, d)
    /\ cycles' = [c \in DOMAIN cycles |->
                    IF cycles[c].pc = "delay"
                    THEN [cycles[c] EXCEPT !.rem = cycles[c].rem - d] ELSE cycles[c]]
    /\ starts' = [s \in DOMAIN starts |->
                    IF starts[s].pc = "delay"
                    THEN [starts[s] EXCEPT !.rem = starts[s].rem - d] ELSE starts[s]]
    /\ sinceFrame' = Min(sinceFrame + d, SILENCE_MS)
    /\ UNCHANGED <<wsOpen, inboundChunks, silenceTimer, isSpeaking, inFlight, memory,
                   cachedGreetingPcm, warm0, outbound, nFrames, nStarts,
                   consumed, run>>

\* ------------------------------------------------------------ inbound frames
\* ws.on("message"): a frame that is not JSON is binary audio (lines 246-254).
BinaryFrame ==
  /\ wsOpen
  /\ nFrames < MaxFrames
  /\ nFrames' = nFrames + 1
  /\ inboundChunks' = Append(inboundChunks, nFrames + 1)
  /\ resetSilenceTimer(nFrames + 1)
  /\ sinceFrame' = 0
  /\ UNCHANGED <<wsOpen, isSpeaking, inFlight, memory, cycles, starts, guards,
                 cachedGreetingPcm, warm0, outbound, nStarts, consumed, run>>

\* msg.event === "media" with a payload (lines 278-285).
MediaEvent ==
  /\ wsOpen
  /\ nFrames < MaxFrames
  /\ nFrames' = nFrames + 1
  /\ inboundChunks' = Append(inboundChunks, nFrames + 1)
  /\ resetSilenceTimer(nFrames + 1)
  /\ sinceFrame' = 0
  /\ UNCHANGED <<wsOpen, isSpeaking, inFlight, memory, cycles, starts, guards,
                 cachedGreetingPcm, warm0, outbound, nStarts, consumed, run>>

\* ------------------------------------------------------------ the silence callback
\* A variant of the early returns without the one on isSpeaking.
FireIsNoopUnmuted == inboundChunks = <<>> \/ inFlight

\* The three early returns of the callback (lines 202-204).
FireIsNoop == inboundChunks = <<>> \/ isSpeaking \/ inFlight

SilenceNoop ==
  \E t \in silencePending :
    /\ t.rem = 0
    /\ FireIsNoop
    /\ silencePending' = silencePending \ {t}
    /\ UNCHANGED <<wsOpen, inboundChunks, silenceTimer, isSpeaking, inFlight, memory,
                   cycles, starts, guards, cachedGreetingPcm, warm0, outbound, nFrames,
                   nStarts, consumed, sinceFrame, run>>

\* A variant of the launch that takes only the oldest frame out of the buffer.
AfterLaunchTail(chunks) == Tail(chunks)

\* A variant of the launch that leaves the buffer as it is.
AfterLaunchKept(chunks) == chunks

\* The buffer left behind by a launch: inboundChunks = [] (line 209).
AfterLaunch(chunks) == <<>>

Range(seq) == {seq[k] : k \in DOMAIN seq}

\* inFlight = true; rawInbound = concat(inboundChunks); inboundChunks = []; then
\* transcribeRawInbound is awaited (lines 206-212).
Launch ==
  \E t \in silencePending :
    /\ t.rem = 0
    /\ ~FireIsNoop
    /\ silencePending' = silencePending \ {t}
    /\ inFlight' = TRUE
    /\ cycles' = cycles @@ (t.id :> Cycle("stt", inboundChunks, NoBuffer, 0, 0))
    /\ consumed' = consumed \cup Range(inboundChunks)
    /\ inboundChunks' = AfterLaunch(inboundChunks)
    /\ UNCHANGED <<wsOpen, silenceTimer, isSpeaking, memory, starts, guards,
                   cachedGreetingPcm, warm0, outbound, nFrames, nStarts, sinceFrame, run>>

\* finally: setTimeout(() => { isSpeaking = false; inFlight = false }, 400); the
\* callback is over.  why records how the try block was left.
CycleFinally(c, why) ==
  /\ cycles' = Without(cycles, c)
  /\ guards' = guards \cup {[kind |-> "cycle", n |-> c, rem |-> GUARD_MS, why |-> why]}

\* A variant of catch that closes the socket, as the catch of the greeting does in
\* src/server.js.
CycleCatchClosing(c, e) == CycleFinally(c, e) /\ wsOpen' = FALSE

\* catch: the failure e is logged, nothing else (lines 232-233); then finally.
CycleCatch(c, e) == CycleFinally(c, e) /\ UNCHANGED wsOpen

\* sendPcmStream at the head of its loop with index i, inside speak of cycle c.
CycleSend(c, rec, i, o) ==
  IF StreamMore(rec.buf, i)
  THEN IF o = "throws"
       THEN CycleCatch(c, "SendError") /\ UNCHANGED outbound
       ELSE /\ cycles' = [cycles EXCEPT
                            ![c] = [rec EXCEPT !.pc = "delay", !.i = i, !.rem = DELAY_MS]]
            /\ outbound' = IF o = "sent"
                           THEN Append(outbound,
                                       Sent("cycle", c, StreamChunk(rec.buf, i, CHUNK_BYTES)))
                           ELSE outbound
            /\ UNCHANGED <<guards, wsOpen>>
  ELSE CycleFinally(c, "played") /\ UNCHANGED <<outbound, wsOpen>>

\* ------------------------------------------------------------ a pipeline cycle
\* What a step of a cycle or of the start branch never writes.
segmenter == <<inboundChunks, silenceTimer, silencePending, nFrames, nStarts,
               consumed, sinceFrame, run>>

\* What the recognizer answers for cycle c: words, only white space, or no text.
WhisperTexts(c) == {UserSpeech(c), BlankText, Null}

\* A variant of the early return that leaves inFlight set.
AbortFlagKept == TRUE

\* The flag after the early return on an empty transcript or reply (lines 214, 223).
AbortFlag == FALSE

\* transcribeRawInbound resolves (rawToWavForWhisper, then Whisper, trimmed): an empty
\* text aborts the cycle, otherwise the caller turn is pushed and getAIReply is
\* awaited (lines 212-221, 111-123).
SttDone ==
  \E c \in DOMAIN cycles : \E resp \in WhisperTexts(c) :
    LET userText == TrimOrEmpty(resp) IN
    /\ cycles[c].pc = "stt"
    /\ IF userText = EmptyText
       THEN /\ inFlight' = AbortFlag
            /\ CycleFinally(c, "empty transcript")
            /\ UNCHANGED memory
       ELSE /\ recordTurn("user", userText)
            /\ cycles' = [cycles EXCEPT ![c].pc = "reply",
                                        ![c].req = messages(history', userText)]
            /\ UNCHANGED <<inFlight, guards>>
    /\ UNCHANGED <<wsOpen, isSpeaking, starts, cachedGreetingPcm, warm0, outbound,
                   segmenter>>

\* transcribeRawInbound rejects: no API key, ffmpeg failed, or Whisper failed; the
\* rejection reaches catch, which only logs (lines 232-233).
SttFailed ==
  \E c \in DOMAIN cycles : \E e \in {"ConfigurationError", "ConversionError", "RecognitionError"} :
    /\ cycles[c].pc = "stt"
    /\ CycleCatch(c, e)
    /\ UNCHANGED <<isSpeaking, inFlight, memory, starts, cachedGreetingPcm,
                   warm0, outbound, segmenter>>

\* What the chat model answers for cycle c.
ReplyTexts(c) == {AnswerText(c), BlankText, Null}

\* The reply arrives: an empty reply aborts the cycle, otherwise the assistant turn
\* is pushed, isSpeaking is set and speak is awaited (lines 221-231).
ReplyDone ==
  \E c \in DOMAIN cycles : \E resp \in ReplyTexts(c) :
    LET answer == TrimOrEmpty(resp) IN
    /\ cycles[c].pc = "reply"
    /\ IF answer = EmptyText
       THEN /\ inFlight' = AbortFlag
            /\ CycleFinally(c, "empty reply")
            /\ UNCHANGED <<memory, isSpeaking>>
       ELSE /\ recordTurn("assistant", answer)
            /\ isSpeaking' = TRUE
            /\ cycles' = [cycles EXCEPT ![c].pc = "synth", ![c].req = NoRequest]
            /\ UNCHANGED <<inFlight, guards>>
    /\ UNCHANGED <<wsOpen, starts, cachedGreetingPcm, warm0, outbound, segmenter>>

ReplyFailed ==
  \E c \in DOMAIN cycles :
    /\ cycles[c].pc = "reply"
    /\ CycleCatch(c, "GenerationError")
    /\ UNCHANGED <<isSpeaking, inFlight, memory, starts, cachedGreetingPcm,
                   warm0, outbound, segmenter>>

\* speak: elevenTTS and mp3ToPcm8kS16le have resolved and sendPcmStream sends its
\* first frame (lines 153-156).
SynthDone ==
  \E c \in DOMAIN cycles : \E len \in PcmLens : \E o \in SendOutcomes :
    /\ cycles[c].pc = "synth"
    /\ CycleSend(c, [cycles[c] EXCEPT !.buf = Buffer(AnswerText(c), len)], 0, o)
    /\ UNCHANGED <<isSpeaking, inFlight, memory, starts, cachedGreetingPcm,
                   warm0, segmenter>>

\* speak: elevenTTS or mp3ToPcm8kS16le rejects.
SynthFailed ==
  \E c \in DOMAIN cycles : \E e \in {"SynthesisError", "ConversionError"} :
    /\ cycles[c].pc = "synth"
    /\ CycleCatch(c, e)
    /\ UNCHANGED <<isSpeaking, inFlight, memory, starts, cachedGreetingPcm,
                   warm0, outbound, segmenter>>

\* sendPcmStream: the 20 ms wait is over, i += chunkBytes, next frame or return.
CycleDelayDone ==
  \E c \in DOMAIN cycles : \E o \in SendOutcomes :
    /\ cycles[c].pc = "delay"
    /\ cycles[c].rem = 0
    /\ CycleSend(c, cycles[c], StreamNext(cycles[c].i, CHUNK_BYTES), o)
    /\ UNCHANGED <<isSpeaking, inFlight, memory, starts, cachedGreetingPcm,
                   warm0, segmenter>>

\* ------------------------------------------------------------ guard timeouts
\* The guard of a cycle: isSpeaking = false; inFlight = false (lines 236-239).
CycleGuardFire ==
  \E g \in guards :
    /\ g.kind = "cycle"
    /\ g.rem = 0
    /\ guards' = guards \ {g}
    /\ isSpeaking' = FALSE
    /\ inFlight' = FALSE
    /\ UNCHANGED <<wsOpen, memory, cycles, starts, cachedGreetingPcm, warm0, outbound,
                   segmenter>>

\* The guard of the greeting: isSpeaking = false (line 273).
StartGuardFire ==
  \E g \in guards :
    /\ g.kind = "start"
    /\ g.rem = 0
    /\ guards' = guards \ {g}
    /\ isSpeaking' = FALSE
    /\ UNCHANGED <<wsOpen, inFlight, memory, cycles, starts, cachedGreetingPcm, warm0,
                   outbound, segmenter>>

\* ------------------------------------------------------------ the start branch
\* finally: setTimeout(() => (isSpeaking = false), 400); the handler is over.
StartFinally(s, why) ==
  /\ starts' = Without(starts, s)
  /\ guards' = guards \cup {[kind |-> "start", n |-> s, rem |-> GUARD_MS, why |-> why]}

\* catch: the failure is logged, the socket is left as it is (lines 270-271).
GreetingCatch(s) == StartFinally(s, "failed") /\ UNCHANGED wsOpen

\* sendPcmStream at the head of its loop with index i, inside the start branch; when
\* the loop ends the greeting turn is pushed (line 269).
StartSend(s, rec, i, o) ==
  IF StreamMore(rec.buf, i)
  THEN IF o = "throws"
       THEN GreetingCatch(s) /\ UNCHANGED <<outbound, memory>>
       ELSE /\ starts' = (s :> [rec EXCEPT !.pc = "delay", !.i = i, !.rem = DELAY_MS])
                           @@ starts
            /\ outbound' = IF o = "sent"
                           THEN Append(outbound,
                                       Sent("start", s, StreamChunk(rec.buf, i, CHUNK_BYTES)))
                           ELSE outbound
            /\ UNCHANGED <<guards, memory, wsOpen>>
  ELSE /\ StartFinally(s, "greeted")
       /\ recordTurn("assistant", GREETING_TEXT)
       /\ UNCHANGED <<outbound, wsOpen>>

\* A variant that, with nothing cached, skips the playback and goes on.
GreetSkipping(s, rec, cache, o) ==
  IF cache # NoBuffer
  THEN StartSend(s, [rec EXCEPT !.buf = cache], 0, o)
  ELSE /\ StartFinally(s, "greeted")
       /\ recordTurn("assistant", GREETING_TEXT)
       /\ UNCHANGED <<outbound, wsOpen>>

\* After warmupGreeting (or without it): the cached greeting is streamed if there is
\* one, otherwise speak(GREETING_TEXT) is awaited (lines 263-267).
Greet(s, rec, cache, o) ==
  IF cache # NoBuffer
  THEN StartSend(s, [rec EXCEPT !.buf = cache], 0, o)
  ELSE /\ starts' = (s :> [rec EXCEPT !.pc = "synth"]) @@ starts
       /\ UNCHANGED <<guards, memory, outbound, wsOpen>>

\* A variant of the test that warms whatever the cache holds.
NeedsWarmAlways(cache) == TRUE

\* if (!cachedGreetingPcm) (line 262)
NeedsWarm(cache) == cache = NoBuffer

\* msg.event === "start": isSpeaking = true, then warmupGreeting is awaited when
\* nothing is cached (lines 256-262).  At most max start events are considered.
StartEventUpTo(max) ==
  \E o \in SendOutcomes :
    /\ wsOpen
    /\ nStarts < max
    /\ nStarts' = nStarts + 1
    /\ isSpeaking' = TRUE
    /\ LET s == nStarts + 1
           rec == Start("warm", NoBuffer, 0, 0)
       IN  IF NeedsWarm(cachedGreetingPcm)
           THEN /\ starts' = (s :> rec) @@ starts
                /\ UNCHANGED <<guards, memory, outbound, wsOpen>>
           ELSE Greet(s, rec, cachedGreetingPcm, o)
    /\ UNCHANGED <<inboundChunks, silenceTimer, silencePending, inFlight, cycles,
                   cachedGreetingPcm, warm0, nFrames, consumed, sinceFrame, run>>

StartEvent == StartEventUpTo(MaxStarts)

\* warmupGreeting called from the start branch resolves having written the cache
\* (elevenTTS, mp3ToPcm8kS16le), and the start branch goes on (lines 163-168, 263).
StartWarmed ==
  \E s \in DOMAIN starts : \E len \in PcmLens : \E o \in SendOutcomes :
    /\ starts[s].pc = "warm"
    /\ cachedGreetingPcm' = Buffer(GREETING_TEXT, len)
    /\ Greet(s, starts[s], cachedGreetingPcm', o)
    /\ UNCHANGED <<isSpeaking, inFlight, cycles, warm0, segmenter>>

\* warmupGreeting catches its own failure and resolves; the start branch goes on
\* with whatever the cache holds by then (lines 169-171, 263).
StartWarmFailed ==
  \E s \in DOMAIN starts : \E o \in SendOutcomes :
    /\ starts[s].pc = "warm"
    /\ Greet(s, starts[s], cachedGreetingPcm, o)
    /\ UNCHANGED <<isSpeaking, inFlight, cycles, cachedGreetingPcm, warm0, segmenter>>

\* speak(ws, GREETING_TEXT): the audio is ready, sendPcmStream begins (lines 266, 153-156).
StartSynthDone ==
  \E s \in DOMAIN starts : \E len \in PcmLens : \E o \in SendOutcomes :
    /\ starts[s].pc = "synth"
    /\ StartSend(s, [starts[s] EXCEPT !.buf = Buffer(GREETING_TEXT, len)], 0, o)
    /\ UNCHANGED <<isSpeaking, inFlight, cycles, cachedGreetingPcm, warm0, segmenter>>

\* speak(ws, GREETING_TEXT) rejects: the catch of the start branch runs.
StartSynthFailed ==
  \E s \in DOMAIN starts :
    /\ starts[s].pc = "synth"
    /\ GreetingCatch(s)
    /\ UNCHANGED <<isSpeaking, inFlight, memory, cycles, cachedGreetingPcm, warm0,
                   outbound, segmenter>>

\* sendPcmStream in the start branch: the 20 ms wait is over.
StartDelayDone ==
  \E s \in DOMAIN starts : \E o \in SendOutcomes :
    /\ starts[s].pc = "delay"
    /\ starts[s].rem = 0
    /\ StartSend(s, starts[s], StreamNext(starts[s].i, CHUNK_BYTES), o)
    /\ UNCHANGED <<isSpeaking, inFlight, cycles, cachedGreetingPcm, warm0, segmenter>>

\* ------------------------------------------------------------ the startup warm-up
session == <<wsOpen, isSpeaking, inFlight, memory, cycles, starts, guards, outbound,
             segmenter>>

\* setTimeout(warmupGreeting, 0) fires: warmupGreeting starts (lines 173, 163-166).
Warm0Start ==
  /\ warm0 = "timer"
  /\ warm0' = "warm"
  /\ UNCHANGED <<cachedGreetingPcm, session>>

\* The audio is ready and the cache is written (line 167).
Warm0Done ==
  \E len \in PcmLens :
    /\ warm0 = "warm"
    /\ warm0' = "done"
    /\ cachedGreetingPcm' = Buffer(GREETING_TEXT, len)
    /\ UNCHANGED session

\* elevenTTS or mp3ToPcm8kS16le rejects: the warm-up is skipped (lines 169-171).
Warm0Failed ==
  /\ warm0 = "warm"
  /\ warm0' = "done"
  /\ UNCHANGED <<cachedGreetingPcm, session>>

\* ------------------------------------------------------------ the end of the call
\* msg.event === "stop": clearTimeout(silenceTimer); ws.close() (lines 287-292).
StopEvent ==
  /\ wsOpen
  /\ silencePending' = ClearSilence(silencePending, silenceTimer)
  /\ wsOpen' = FALSE
  /\ UNCHANGED <<inboundChunks, silenceTimer, isSpeaking, inFlight, memory, cycles,
                 starts, guards, cachedGreetingPcm, warm0, outbound, nFrames, nStarts, consumed, sinceFrame, run>>

\* The peer closes the socket: ws.on("close") only logs (line 295).
PeerClose ==
  /\ wsOpen
  /\ wsOpen' = FALSE
  /\ UNCHANGED <<inboundChunks, silenceTimer, silencePending, isSpeaking, inFlight,
                 memory, cycles, starts, guards, cachedGreetingPcm, warm0, outbound,
                 nFrames, nStarts, consumed, sinceFrame, run>>

\* ------------------------------------------------------------ specification
\* The call while it lasts.
Next ==
  \/ Tick
  \/ BinaryFrame
  \/ MediaEvent
  \/ SilenceNoop
  \/ Launch
  \/ SttDone
  \/ SttFailed
  \/ ReplyDone
  \/ ReplyFailed
  \/ SynthDone
  \/ SynthFailed
  \/ CycleDelayDone
  \/ CycleGuardFire
  \/ StartGuardFire
  \/ StartEvent
  \/ StartWarmed
  \/ StartWarmFailed
  \/ StartSynthDone
  \/ StartSynthFailed
  \/ StartDelayDone
  \/ Warm0Start
  \/ Warm0Done
  \/ Warm0Failed

Spec == Init /\ [][Next]_vars

\* A call accepted after the startup warm-up is over, whether or not it filled the
\* cache.
InitClose ==
  /\ wsOpen = TRUE
  /\ inboundChunks = <<>>
  /\ silenceTimer = 0
  /\ silencePending = {}
  /\ isSpeaking = FALSE
  /\ inFlight = FALSE
  /\ history = <<>>
  /\ cycles = <<>>
  /\ starts = <<>>
  /\ guards = {}
  /\ cachedGreetingPcm \in {NoBuffer} \cup {Buffer(GREETING_TEXT, len) : len \in PcmLens}
  /\ warm0 = "done"
  /\ outbound = <<>>
  /\ nFrames = 0
  /\ nStarts = 0
  /\ consumed = {}
  /\ sinceFrame = SILENCE_MS
  /\ turns = <<>>
  /\ run = NoRun

\* The call and its end.
NextClose ==
  \/ Tick
  \/ BinaryFrame
  \/ MediaEvent
  \/ SilenceNoop
  \/ Launch
  \/ SttDone
  \/ SttFailed
  \/ ReplyDone
  \/ ReplyFailed
  \/ SynthDone
  \/ SynthFailed
  \/ CycleDelayDone
  \/ CycleGuardFire
  \/ StartGuardFire
  \/ StartEvent
  \/ StartWarmed
  \/ StartWarmFailed
  \/ StartSynthDone
  \/ StartSynthFailed
  \/ StartDelayDone
  \/ StopEvent
  \/ PeerClose

SpecClose == InitClose /\ [][NextClose]_vars

\* Timers fire when they are due and time goes on.
Fairness ==
  /\ WF_vars(Tick)
  /\ WF_vars(SilenceNoop)
  /\ WF_vars(Launch)
  /\ WF_vars(CycleDelayDone)
  /\ WF_vars(StartDelayDone)
  /\ WF_vars(CycleGuardFire)
  /\ WF_vars(StartGuardFire)
  /\ WF_vars(Warm0Start)

FairSpec == Spec /\ Fairness

\* Every external call (ffmpeg, Whisper, the chat model, ElevenLabs) completes, with
\* one of its outcomes.
CallsComplete ==
  /\ WF_vars(SttDone \/ SttFailed)
  /\ WF_vars(ReplyDone \/ ReplyFailed)
  /\ WF_vars(SynthDone \/ SynthFailed)
  /\ WF_vars(StartWarmed \/ StartWarmFailed)
  /\ WF_vars(StartSynthDone \/ StartSynthFailed)
  /\ WF_vars(Warm0Done \/ Warm0Failed)

\* The call while it lasts, with timers that fire and external calls that complete.
LiveSpec == Spec /\ Fairness /\ CallsComplete

\* ------------------------------------------------------------ the greeting cache
MaxRacers == 3

\* A start event of one of the calls that race for the cache.
StartRacing == StartEventUpTo(MaxRacers)

\* The startup warm-up and the start branches of the calls, which share the cache.
NextCache ==
  \/ Tick
  \/ Warm0Start
  \/ Warm0Done
  \/ Warm0Failed
  \/ StartRacing
  \/ StartWarmed
  \/ StartWarmFailed
  \/ StartSynthDone
  \/ StartSynthFailed
  \/ StartDelayDone
  \/ StartGuardFire

SpecCache == Init /\ [][NextCache]_vars

\* ------------------------------------------------------------ sendPcmStream alone
MaxLen   == 8
MaxChunk == 4

\* One call sendPcmStream(ws, pcmBuf, chunkBytes) on an open socket.
InitStream ==
  /\ wsOpen = TRUE
  /\ inboundChunks = <<>>
  /\ silenceTimer = 0
  /\ silencePending = {}
  /\ isSpeaking = FALSE
  /\ inFlight = FALSE
  /\ history = <<>>
  /\ cycles = <<>>
  /\ starts = <<>>
  /\ guards = {}
  /\ cachedGreetingPcm = NoBuffer
  /\ warm0 = "done"
  /\ outbound = <<>>
  /\ nFrames = 0
  /\ nStarts = 0
  /\ consumed = {}
  /\ sinceFrame = SILENCE_MS
  /\ turns = <<>>
  /\ \E L \in 0..MaxLen : \E F \in 1..MaxChunk :
       run = [pc |-> "called", pcmBuf |-> Buffer(GREETING_TEXT, L), chunkBytes |-> F,
              i |-> 0, base |-> 0]

\* The head of the loop with index i: the next frame is sent and the wait begins, or
\* the function returns (lines 74-77).
StreamStep(i) ==
  IF StreamMore(run.pcmBuf, i)
  THEN /\ outbound' = Append(outbound,
                             Sent("run", 0, StreamChunk(run.pcmBuf, i, run.chunkBytes)))
       /\ run' = [run EXCEPT !.pc = "delay", !.i = i]
  ELSE /\ run' = [run EXCEPT !.pc = "returned", !.i = i]
       /\ UNCHANGED outbound

StreamCall ==
  /\ run.pc = "called"
  /\ StreamStep(0)
  /\ UNCHANGED <<wsOpen, inboundChunks, silenceTimer, silencePending, isSpeaking,
                 inFlight, memory, cycles, starts, guards, cachedGreetingPcm, warm0,
                 nFrames, nStarts, consumed, sinceFrame>>

\* The wait of delayMs is over: i += chunkBytes (line 74).
StreamDelayDone ==
  /\ run.pc = "delay"
  /\ StreamStep(StreamNext(run.i, run.chunkBytes))
  /\ UNCHANGED <<wsOpen, inboundChunks, silenceTimer, silencePending, isSpeaking,
                 inFlight, memory, cycles, starts, guards, cachedGreetingPcm, warm0,
                 nFrames, nStarts, consumed, sinceFrame>>

NextStream ==
  \/ StreamCall
  \/ StreamDelayDone

SpecStream == InitStream /\ [][NextStream]_vars

\* ------------------------------------------------------------ push alone
MaxPush == 3

\* The turn a conversation has at position k: the greeting, then caller and assistant
\* in turn.
TurnAt(k) ==
  IF k = 1 THEN [role |-> "assistant", content |-> GREETING_TEXT]
  ELSE IF k % 2 = 0 THEN [role |-> "user", content |-> UserSpeech(k \div 2)]
  ELSE [role |-> "assistant", content |-> AnswerText(k \div 2)]

\* A session whose history holds a conversation of any length the bound allows.
InitHistory ==
  /\ wsOpen = TRUE
  /\ inboundChunks = <<>>
  /\ silenceTimer = 0
  /\ silencePending = {}
  /\ isSpeaking = FALSE
  /\ inFlight = FALSE
  /\ cycles = <<>>
  /\ starts = <<>>
  /\ guards = {}
  /\ cachedGreetingPcm = NoBuffer
  /\ warm0 = "done"
  /\ outbound = <<>>
  /\ nFrames = 0
  /\ nStarts = 0
  /\ consumed = {}
  /\ sinceFrame = SILENCE_MS
  /\ \E n \in 0..HISTORY_MAX :
       /\ history = [k \in 1..n |-> TurnAt(k)]
       /\ turns = history
       /\ run = [NoRun EXCEPT !.base = n]

\* push("user", userText) (line 219).
PushUser ==
  \E c \in 1..2 :
    /\ Len(turns) < run.base + MaxPush
    /\ recordTurn("user", UserSpeech(HISTORY_MAX + c))
    /\ UNCHANGED <<wsOpen, inboundChunks, silenceTimer, silencePending, isSpeaking,
                   inFlight, cycles, starts, guards, cachedGreetingPcm, warm0, outbound,
                   nFrames, nStarts, consumed, sinceFrame, run>>

\* push("assistant", answer) (line 228).
PushAssistant ==
  \E c \in 1..2 :
    /\ Len(turns) < run.base + MaxPush
    /\ recordTurn("assistant", AnswerText(HISTORY_MAX + c))
    /\ UNCHANGED <<wsOpen, inboundChunks, silenceTimer, silencePending, isSpeaking,
                   inFlight, cycles, starts, guards, cachedGreetingPcm, warm0, outbound,
                   nFrames, nStarts, consumed, sinceFrame, run>>

NextHistory ==
  \/ PushUser
  \/ PushAssistant

SpecHistory == InitHistory /\ [][NextHistory]_vars

\* ------------------------------------------------------------ properties
\* The cycles in progress: launched and not yet through finally.
InProgress == DOMAIN cycles

\* C1: single-flight: at most one pipeline cycle is in progress at any time.
C1_SingleFlight == Cardinality(InProgress) <= 1

\* A playback is sending frames, or the guard interval after a playback has not elapsed.
Streaming ==
  \/ \E c \in DOMAIN cycles : cycles[c].pc = "delay"
  \/ \E s \in DOMAIN starts : starts[s].pc = "delay"

InGuard == \E g \in guards : g.why \in {"played", "greeted"}

\* C2: mute bracketing: isSpeaking is true while synthesized audio is being sent and
\* until the guard interval after the playback's last frame has elapsed.
C2_MuteBrackets == (Streaming \/ InGuard) => isSpeaking

\* C3: the inbound buffer is never processed twice: the frames handed to a cycle at its
\* launch were handed to no earlier cycle.
C3_BufferOnce ==
  [][\A c \in DOMAIN cycles' \ DOMAIN cycles :
       Range(cycles'[c].raw) \cap consumed = {}]_vars

\* Two cycles have been launched, each with frames of its own.
C3_TwoCycles ==
  \E c \in DOMAIN cycles :
    /\ cycles[c].raw # <<>>
    /\ consumed \ Range(cycles[c].raw) # {}

\* C4: silence segmentation: at most one deadline is pending, it is the one the most
\* recent frame started, and it is not due before 800 ms have passed since that frame.
C4_SilenceSegmentation ==
  /\ Cardinality(silencePending) <= 1
  /\ \A t \in silencePending :
       /\ t.id = nFrames
       /\ t.rem = 0 => sinceFrame >= SILENCE_MS

\* The second frame came while the deadline of the first was pending (had that one
\* expired, it would have launched a cycle), and its own deadline is now due.
C4_Restarted ==
  /\ nStarts = 0
  /\ consumed = {}
  /\ inboundChunks = <<1, 2>>
  /\ silencePending = {[id |-> 2, rem |-> 0]}
  /\ sinceFrame = SILENCE_MS

\* A step in which a due silence deadline expires.
Fire == \E t \in silencePending : t.rem = 0 /\ silencePending' = silencePending \ {t}

\* C5: a fire while isSpeaking or inFlight is true, or while the buffer is empty, is a
\* no-op: no cycle is launched and the buffer, the history, both flags and the rest of
\* the session stay as they are.
C5_NoopFire ==
  [][(Fire /\ (isSpeaking \/ inFlight \/ inboundChunks = <<>>))
       => UNCHANGED <<inboundChunks, memory, isSpeaking, inFlight, cycles, starts,
                      guards, outbound, wsOpen>>]_vars

\* During a playback the deadline of the last frame has expired and the frame is still
\* in the buffer.
C5_BufferedWhileSpeaking ==
  /\ isSpeaking
  /\ \E c \in DOMAIN cycles : cycles[c].pc = "delay"
  /\ nFrames > 0
  /\ silenceTimer = nFrames
  /\ silencePending = {}
  /\ inboundChunks # <<>>
  /\ inboundChunks[Len(inboundChunks)] = nFrames

\* The last n turns pushed, in the order they were pushed.
LastTurns(n) == SubSeq(turns, Len(turns) - n + 1, Len(turns))

\* C6: history bound: the history never holds more than 20 turns and always equals the
\* last min(n, 20) of the n turns pushed, in push order.
C6_HistoryBound ==
  /\ Len(history) <= HISTORY_MAX
  /\ history = LastTurns(Min(Len(turns), HISTORY_MAX))

\* More than one turn has been evicted.
C6_Evicted == Len(turns) > HISTORY_MAX + 1 /\ Len(history) = HISTORY_MAX

CeilDiv(L, F) == (L + F - 1) \div F

\* The k-th frame transmitted, as the peer decodes it.
Frame(k) == FromBase64(outbound[k].msg.payload)

RECURSIVE BytesUpTo(_)
BytesUpTo(k) == IF k = 0 THEN <<>> ELSE BytesUpTo(k - 1) \o Bytes(Frame(k))

\* C7: sendPcmStream on a buffer of length L with frame size F has sent, when it
\* returns, exactly ceil(L/F) frames, consecutive slices of the buffer in order, each
\* but possibly the last of size F, whose concatenation is the buffer.
C7_Framing ==
  run.pc = "returned" =>
    LET L == run.pcmBuf.len
        F == run.chunkBytes
        n == Len(outbound)
    IN  /\ n = CeilDiv(L, F)
        /\ \A k \in 1..n :
             /\ Frame(k).id = run.pcmBuf.id
             /\ Frame(k).off = run.pcmBuf.off + (k - 1) * F
             /\ Frame(k).len = IF k < n THEN F ELSE L - (n - 1) * F
             /\ Frame(k).len \in 1..F
        /\ BytesUpTo(n) = Bytes(run.pcmBuf)

\* The call has returned after several frames, the last one short.
C7_ShortLast ==
  /\ run.pc = "returned"
  /\ Len(outbound) >= 2
  /\ Frame(Len(outbound)).len < run.chunkBytes

\* The step in which cycle c leaves its try block for the reason why.
Leaves(c, why) ==
  [kind |-> "cycle", n |-> c, rem |-> GUARD_MS, why |-> why] \in guards' \ guards

\* C8: on an empty transcript no turn is recorded, nothing is sent, the cycle is over
\* without reply or synthesis, and inFlight is false.
C8_EmptyTranscript ==
  [][\A c \in DOMAIN cycles :
       Leaves(c, "empty transcript")
         => /\ cycles[c].pc = "stt"
            /\ cycles' = Without(cycles, c)
            /\ inFlight' = FALSE
            /\ UNCHANGED <<memory, outbound, isSpeaking, wsOpen>>]_vars

\* A cycle has just ended on an empty transcript.
C8_Aborted ==
  /\ \E g \in guards : g.why = "empty transcript" /\ g.rem = GUARD_MS
  /\ cycles = <<>>
  /\ ~inFlight
  /\ history = <<>>

FailureWhys ==
  {"ConfigurationError", "ConversionError", "RecognitionError", "GenerationError",
   "SynthesisError"}

FailurePending == \E g \in guards : g.kind = "cycle" /\ g.why \in FailureWhys

\* C9: failure policy: a failure of transcoding, recognition, reply generation or
\* synthesis ends the cycle with the socket left open, and afterwards inFlight and
\* isSpeaking are eventually both false.
C9_FailurePolicy ==
  /\ [][\A c \in DOMAIN cycles : \A why \in FailureWhys :
          Leaves(c, why) => cycles' = Without(cycles, c) /\ wsOpen' /\ wsOpen]_vars
  /\ FailurePending ~> (~inFlight /\ ~isSpeaking /\ wsOpen)

\* A synthesis failure has just ended a cycle: both flags are still set.
C9_Failed ==
  /\ \E g \in guards : g.kind = "cycle" /\ g.why = "SynthesisError" /\ g.rem = GUARD_MS
  /\ inFlight
  /\ isSpeaking
  /\ wsOpen

\* C10: once obtaining or sending the greeting has failed, the socket is closed.
C10_GreetingFailureCloses ==
  \A g \in guards : (g.kind = "start" /\ g.why = "failed") => ~wsOpen

\* C11: cancellation on close: once the socket is closed, by a stop event or by the
\* peer, no silence deadline is pending (so none fires and no cycle is launched).
C11_ClosedCancels == ~wsOpen => silencePending = {}

\* The frames of playback n of kind by that were delivered, in order.
FramesBy(by, n) == SelectSeq(outbound, LAMBDA f : f.by = by /\ f.n = n)

CacheReady(cache) == cache # NoBuffer /\ cache.id = GREETING_TEXT /\ cache.len > 0

\* C13: the greeting cache is write-once-then-read-many: once it holds the greeting
\* audio it holds it ever after, it is written only by a warm-up that completes, and
\* a start event begins a warm-up only when it finds the cache empty.
C13_WriteOnce ==
  [][/\ cachedGreetingPcm # NoBuffer => CacheReady(cachedGreetingPcm')
     /\ cachedGreetingPcm' # cachedGreetingPcm
          => /\ CacheReady(cachedGreetingPcm')
             /\ \/ warm0 = "warm" /\ warm0' = "done"
                \/ \E s \in DOMAIN starts : starts[s].pc = "warm"
     /\ \A s \in DOMAIN starts' \ DOMAIN starts :
          starts'[s].pc = "warm" => cachedGreetingPcm = NoBuffer]_vars

\* Three warm-ups were begun on an empty cache; one has filled it and the other two,
\* the startup one and that of a start event, are still under way.
C13_Raced ==
  /\ CacheReady(cachedGreetingPcm)
  /\ warm0 = "warm"
  /\ nStarts >= 2
  /\ \E s \in DOMAIN starts : starts[s].pc = "warm"

\* The frames of a sequence are in the order of their arrival.
InArrivalOrder(chunks) ==
  \A j, k \in DOMAIN chunks : j < k => chunks[j] < chunks[k]

\* C14: a deadline that expires while the session is neither muted nor busy and the
\* buffer is not empty launches one cycle, which receives the whole buffer in arrival
\* order and leaves the buffer empty and no deadline pending; the buffer changes only
\* by one arriving frame or by such a launch; and a pending deadline does expire.
C14_OneFirePerGap ==
  /\ [][/\ (Fire /\ ~isSpeaking /\ ~inFlight /\ inboundChunks # <<>>)
             => /\ DOMAIN cycles' \ DOMAIN cycles = {silenceTimer}
                /\ cycles'[silenceTimer].raw = inboundChunks
                /\ InArrivalOrder(inboundChunks)
                /\ inboundChunks' = <<>>
                /\ silencePending' = {}
        /\ inboundChunks' # inboundChunks
             => \/ inboundChunks' = Append(inboundChunks, nFrames')
                   /\ nFrames' = nFrames + 1
                \/ Fire /\ inboundChunks' = <<>>]_vars
  /\ silencePending # {} ~> silencePending = {}

\* Two frames came less than 800 ms apart, then none: the deadline of the second has
\* launched a cycle with both and the buffer is empty.
C14_Utterance ==
  /\ 2 \in DOMAIN cycles
  /\ cycles[2].pc = "stt"
  /\ cycles[2].raw = <<1, 2>>
  /\ DOMAIN cycles = {2}
  /\ inboundChunks = <<>>
  /\ silencePending = {}

\* C15: no cycle before start: frames are handed to a cycle, and a cycle runs, only
\* after a start event has been received.
C15_NoCycleBeforeStart == (consumed # {} \/ cycles # <<>>) => nStarts > 0

GreetingTurn == [role |-> "assistant", content |-> GREETING_TEXT]

\* The frames a playback of the greeting audio delivers for start event s.
GreetingFrames(s) ==
  {[k \in 1..CeilDiv(len, CHUNK_BYTES) |->
      Sent("start", s, StreamChunk(Buffer(GREETING_TEXT, len),
                                   (k - 1) * CHUNK_BYTES, CHUNK_BYTES))] :
     len \in PcmLens}

\* The step in which the start branch of start event s ends for the reason why.
StartLeaves(s, why) ==
  [kind |-> "start", n |-> s, rem |-> GUARD_MS, why |-> why] \in guards' \ guards

\* C16: greeting path equivalence: whether the greeting comes from the cache or is
\* synthesized on demand, a start event sets isSpeaking, the completed greeting has
\* delivered the frames of the greeting audio and appends the greeting turn with
\* isSpeaking left set, and the expiry of its guard interval clears isSpeaking.
C16_GreetingPaths ==
  [][/\ DOMAIN starts' \ DOMAIN starts # {} => isSpeaking'
     /\ \A s \in DOMAIN starts :
          StartLeaves(s, "greeted")
            => /\ FramesBy("start", s) \in GreetingFrames(s)
               /\ turns' = Append(turns, GreetingTurn)
               /\ history'[Len(history')] = GreetingTurn
               /\ UNCHANGED <<isSpeaking, outbound, wsOpen>>
     /\ \A g \in guards \ guards' :
          (g.kind = "start" /\ g.why = "greeted" /\ g.rem = 0) => ~isSpeaking']_vars

\* A greeting has been completed although nothing ever filled the cache: it was
\* synthesized on demand by speak.
C16_OnDemand ==
  /\ \E g \in guards : g.kind = "start" /\ g.why = "greeted"
  /\ cachedGreetingPcm = NoBuffer
  /\ FramesBy("start", 1) \in GreetingFrames(1)

\* C17: when the synthesis of the greeting has failed, the session still proceeds with
\* the greeting turn appended to the history.
C17_FailedGreetingProceeds ==
  \A g \in guards :
    (g.kind = "start" /\ g.why = "failed") => GreetingTurn \in Range(turns)

\* The turns of cycle c and their positions among the turns pushed.
UserTurn(c) == [role |-> "user", content |-> UserSpeech(c)]
AssistantTurn(c) == [role |-> "assistant", content |-> AnswerText(c)]
Pushed(turn) == turn \in Range(turns)
PushedBefore(a, b) ==
  \E j, k \in DOMAIN turns : j < k /\ turns[j] = a /\ turns[k] = b

\* C18: pipeline step ordering: while the reply of a cycle is being generated its
\* caller turn is in the history and its assistant turn is not; from synthesis on both
\* are there, caller first; every reply frame delivered belongs to a cycle with both
\* turns pushed; a cycle aborted on an empty reply has no assistant turn and no frame.
C18_StepOrder ==
  /\ \A c \in DOMAIN cycles :
       /\ cycles[c].pc = "stt"
            => ~Pushed(UserTurn(c)) /\ ~Pushed(AssistantTurn(c))
       /\ cycles[c].pc = "reply"
            => Pushed(UserTurn(c)) /\ ~Pushed(AssistantTurn(c))
       /\ cycles[c].pc \in {"synth", "delay"}
            => PushedBefore(UserTurn(c), AssistantTurn(c))
       /\ cycles[c].pc # "delay" => FramesBy("cycle", c) = <<>>
  /\ \A k \in DOMAIN outbound :
       outbound[k].by = "cycle"
         => PushedBefore(UserTurn(outbound[k].n), AssistantTurn(outbound[k].n))
  /\ \A g \in guards :
       (g.kind = "cycle" /\ g.why = "empty reply")
         => /\ Pushed(UserTurn(g.n))
            /\ ~Pushed(AssistantTurn(g.n))
            /\ FramesBy("cycle", g.n) = <<>>

\* A cycle has delivered its whole reply, and another one was aborted on an empty reply.
C18_Replied ==
  /\ \E g \in guards : g.kind = "cycle" /\ g.why = "played" /\ Len(FramesBy("cycle", g.n)) = 2
  /\ \E g \in guards : g.kind = "cycle" /\ g.why = "empty reply"

\* Two frames delivered belong to the same playback.
SamePlayback(j, k) == outbound[j].by = outbound[k].by /\ outbound[j].n = outbound[k].n

\* C19: one playback at a time: between two frames of one playback no frame of
\* another playback is delivered.
C19_NoInterleaving ==
  \A j, k, l \in DOMAIN outbound :
    (j < k /\ k < l /\ SamePlayback(j, l)) => SamePlayback(j, k)

\* C20: flag ownership: when the guard timeout of a cycle expires while a later cycle
\* is in progress, inFlight keeps its value, and so does isSpeaking if that later cycle
\* has set it.
C20_FlagOwnership ==
  [][\A g \in guards \ guards' :
       (g.kind = "cycle" /\ g.rem = 0)
         => \A c \in DOMAIN cycles :
              c > g.n
                => /\ inFlight' = inFlight
                   /\ cycles[c].pc \in {"synth", "delay"} => isSpeaking' = isSpeaking]_vars

\* C21: no audio is lost: every frame in the buffer is eventually handed to a cycle.
C21_NoAudioLost ==
  \A k \in 1..MaxFrames : (k \in Range(inboundChunks)) ~> (k \in consumed)

\* C22: the messages sent to the chat model for a cycle are the system instruction,
\* then earlier turns, then the cycle's caller text as the final user message, and
\* that text is in no other message.
C22_CurrentTextOnce ==
  \A c \in DOMAIN cycles :
    cycles[c].pc = "reply" =>
      LET m == cycles[c].req IN
      /\ Len(m) >= 2
      /\ m[1] = [role |-> "system", content |-> system]
      /\ m[Len(m)] = [role |-> "user", content |-> UserSpeech(c)]
      /\ \A k \in 2..(Len(m) - 1) :
           /\ m[k].role \in {"user", "assistant"}
           /\ m[k].content # UserSpeech(c)

====
